---- MODULE Spec2Model ----
(***************************************************************************)
(* Model of scripts/parse_pdf.py: the field normalizers, the tag extractor, *)
(* the two table parsers, the two line parsers and the parse_pdf driver.    *)
(*                                                                          *)
(* Python strings are modelled as sequences of one-character strings, so    *)
(* that strip, replace, split, substring tests and the regular expressions  *)
(* are computed on the characters, as the code computes them.  Python's     *)
(* None is the value None below; a float is an exact decimal <<m, e>>       *)
(* standing for m * 10^e, with m not divisible by 10 (zero is <<0, 0>>).    *)
(***************************************************************************)
EXTENDS Integers, Sequences, FiniteSets, TLC

VARIABLES
    pc,            \* position of the call under analysis
    arg,           \* the input of the call
    ret,           \* the value the call returned (None while running)
    handle,        \* parse_pdf: state of the document handle
    page_i,        \* parse_pdf: number of pages already extracted
    all_text,      \* parse_pdf: text accumulated so far
    exc,           \* parse_pdf: message of the exception raised, None if none
    branches       \* table parsers: layout branch taken by each data row

vars == <<pc, arg, ret, handle, page_i, all_text, exc, branches>>

-----------------------------------------------------------------------------
(* Strings *)

Chars(s) == [i \in 1..Len(s) |-> SubSeq(s, i, i)]

None == <<"<None>">>

Digit == {"0", "1", "2", "3", "4", "5", "6", "7", "8", "9"}

LowerAlpha == Chars("abcdefghijklmnopqrstuvwxyz")

UpperAlpha == Chars("ABCDEFGHIJKLMNOPQRSTUVWXYZ")

Letter == {LowerAlpha[i] : i \in 1..26} \cup {UpperAlpha[i] : i \in 1..26}

\* \w of the re module
WordChar == Letter \cup Digit \cup {"_"}

\* the characters str.strip() removes and \s matches
Space == {" ", "\t", "\n", "\r"}

Min(S) == CHOOSE x \in S : \A y \in S : x <= y

Max(S) == CHOOSE x \in S : \A y \in S : x >= y

AllIn(s, S) == \A i \in 1..Len(s) : s[i] \in S

\* str.strip()
Strip(s) ==
    IF AllIn(s, Space) THEN <<>>
    ELSE LET first == CHOOSE i \in 1..Len(s) :
                        s[i] \notin Space /\ \A j \in 1..(i - 1) : s[j] \in Space
             last  == CHOOSE i \in 1..Len(s) :
                        s[i] \notin Space /\ \A j \in (i + 1)..Len(s) : s[j] \in Space
         IN  SubSeq(s, first, last)

\* str.replace(c, by) for a one-character c
RECURSIVE Replace(_, _, _)
Replace(s, c, by) ==
    IF s = <<>> THEN <<>>
    ELSE (IF Head(s) = c THEN by ELSE <<Head(s)>>) \o Replace(Tail(s), c, by)

\* needle in hay
Contains(hay, needle) ==
    \E i \in 1..(Len(hay) - Len(needle) + 1) :
        SubSeq(hay, i, i + Len(needle) - 1) = needle

\* str.split(c) for a one-character c
Split(s, c) ==
    LET cuts == {i \in 1..Len(s) : s[i] = c}
        n    == Cardinality(cuts) + 1
        \* position of the k-th separator; 0 and Len(s)+1 close the ends
        cut(k) == IF k = 0 THEN 0
                  ELSE IF k = n THEN Len(s) + 1
                  ELSE CHOOSE i \in cuts : Cardinality({j \in cuts : j < i}) = k - 1
    IN  [k \in 1..n |-> SubSeq(s, cut(k - 1) + 1, cut(k) - 1)]

\* c.join(parts)
RECURSIVE Join(_, _)
Join(parts, c) ==
    IF parts = <<>> THEN <<>>
    ELSE IF Len(parts) = 1 THEN parts[1]
    ELSE parts[1] \o <<c>> \o Join(Tail(parts), c)

\* str.upper() on the ASCII letters
UpperChar(c) ==
    IF \E i \in 1..26 : LowerAlpha[i] = c
    THEN UpperAlpha[CHOOSE i \in 1..26 : LowerAlpha[i] = c]
    ELSE c

Upper(s) == [i \in 1..Len(s) |-> UpperChar(s[i])]

DigitVal(c) == CHOOSE v \in 0..9 : Chars("0123456789")[v + 1] = c

\* value of a non-empty sequence of digits
RECURSIVE DigitsVal(_)
DigitsVal(s) ==
    IF s = <<>> THEN 0
    ELSE 10 * DigitsVal(SubSeq(s, 1, Len(s) - 1)) + DigitVal(s[Len(s)])

\* Python truthiness of an optional string: None and '' are false
Falsy(v) == v = None \/ v = <<>>

-----------------------------------------------------------------------------
(* clean_value *)

clean_value(value) ==
    IF value = None THEN None
    ELSE LET v == Replace(Strip(value), "\n", <<" ">>)
         IN  IF v = <<>> \/ v = Chars("None") THEN None ELSE v

-----------------------------------------------------------------------------
(* parse_date: datetime.strptime(s, '%Y-%m-%d').isoformat() *)

\* the %m alternatives 1[0-2] | 0[1-9] | [1-9], tried in this order at s[p..];
\* the length matched, 0 for no match.  The '-' that must follow decides
\* between a two-character and a one-character match.
MonthLen(s, p) ==
    LET at(i) == IF i <= Len(s) THEN s[i] ELSE ""
        two == \/ at(p) = "1" /\ at(p + 1) \in {"0", "1", "2"}
               \/ at(p) = "0" /\ at(p + 1) \in (Digit \ {"0"})
    IN  IF two /\ at(p + 2) = "-" THEN 2
        ELSE IF at(p) \in (Digit \ {"0"}) /\ at(p + 1) = "-" THEN 1
        ELSE 0

\* the %d alternatives 3[0-1] | [1-2]\d | 0[1-9] | [1-9] | ' '[1-9], first
\* match wins: nothing follows %d in the pattern, so there is no backtracking
DayLen(s, p) ==
    LET at(i) == IF i <= Len(s) THEN s[i] ELSE ""
    IN  IF at(p) = "3" /\ at(p + 1) \in {"0", "1"} THEN 2
        ELSE IF at(p) \in {"1", "2"} /\ at(p + 1) \in Digit THEN 2
        ELSE IF at(p) = "0" /\ at(p + 1) \in (Digit \ {"0"}) THEN 2
        ELSE IF at(p) \in (Digit \ {"0"}) THEN 1
        ELSE IF at(p) = " " /\ at(p + 1) \in (Digit \ {"0"}) THEN 2
        ELSE 0

IsLeap(y) == y % 4 = 0 /\ (y % 100 # 0 \/ y % 400 = 0)

DaysInMonth(y, m) ==
    IF m = 2 THEN (IF IsLeap(y) THEN 29 ELSE 28)
    ELSE IF m \in {4, 6, 9, 11} THEN 30 ELSE 31

\* _strptime: <<year, month, day>>, or <<>> where strptime raises ValueError
Strptime(s) ==
    IF ~(Len(s) >= 5 /\ AllIn(SubSeq(s, 1, 4), Digit) /\ s[5] = "-") THEN <<>>
    ELSE LET ml == MonthLen(s, 6)
             dp == 6 + ml + 1
             dl == DayLen(s, dp)
         IN  IF ml = 0 \/ dl = 0 THEN <<>>
             ELSE IF dp + dl - 1 # Len(s) THEN <<>>   \* unconverted data remains
             ELSE LET y == DigitsVal(SubSeq(s, 1, 4))
                      m == DigitsVal(SubSeq(s, 6, 6 + ml - 1))
                      d == DigitsVal(Strip(SubSeq(s, dp, dp + dl - 1)))
                  IN  \* datetime(): MINYEAR is 1, the day must exist
                      IF y < 1 \/ d > DaysInMonth(y, m) THEN <<>>
                      ELSE <<y, m, d>>

\* the n low decimal digits of v, zero padded
RECURSIVE Pad(_, _)
Pad(v, n) ==
    IF n = 0 THEN <<>>
    ELSE Pad(v \div 10, n - 1) \o <<Chars("0123456789")[(v % 10) + 1]>>

\* datetime.isoformat() of a date at midnight
IsoFormat(ymd) ==
    Pad(ymd[1], 4) \o <<"-">> \o Pad(ymd[2], 2) \o <<"-">> \o Pad(ymd[3], 2)
        \o Chars("T00:00:00")

\* parse_date without the replacement of the newlines
parse_date_NoNewline(date_str) ==
    IF Falsy(date_str) THEN None
    ELSE LET dt == Strptime(Strip(date_str))
         IN  IF dt = <<>> THEN None ELSE IsoFormat(dt)

parse_date(date_str) ==
    IF Falsy(date_str) THEN None
    ELSE LET dt == Strptime(Replace(Strip(date_str), "\n", <<"-">>))
         IN  IF dt = <<>> THEN None ELSE IsoFormat(dt)

-----------------------------------------------------------------------------
(* parse_float and parse_int *)

Zero == <<0, 0>>

\* the exact decimal m * 10^e, with m not divisible by 10
RECURSIVE Decimal(_, _)
Decimal(m, e) ==
    IF m = 0 THEN Zero
    ELSE IF m % 10 = 0 THEN Decimal(m \div 10, e + 1)
    ELSE <<m, e>>

\* s is [+-]? digits+
IsSignedDigits(s) ==
    LET body == IF s # <<>> /\ s[1] \in {"+", "-"} THEN Tail(s) ELSE s
    IN  body # <<>> /\ AllIn(body, Digit)

SignedVal(s) ==
    IF s[1] = "-" THEN 0 - DigitsVal(Tail(s))
    ELSE IF s[1] = "+" THEN DigitsVal(Tail(s))
    ELSE DigitsVal(s)

\* float(s) on the decimal literals [+-]? (d+ (. d*)? | . d+) ([eE] [+-]? d+)?;
\* <<>> where float raises ValueError.  The value is exact: the rounding and
\* the range of a double, and the literals inf, nan and 1_000, are outside
\* the texts the model feeds in.
PyFloat(s) ==
    LET neg   == s # <<>> /\ s[1] = "-"
        body  == IF s # <<>> /\ s[1] \in {"+", "-"} THEN Tail(s) ELSE s
        es    == {i \in 1..Len(body) : body[i] \in {"e", "E"}}
        ePos  == IF es = {} THEN Len(body) + 1 ELSE Min(es)
        mant  == SubSeq(body, 1, ePos - 1)
        expo  == SubSeq(body, ePos + 1, Len(body))
        dots  == {i \in 1..Len(mant) : mant[i] = "."}
        dPos  == IF dots = {} THEN Len(mant) + 1 ELSE Min(dots)
        ip    == SubSeq(mant, 1, dPos - 1)
        fp    == SubSeq(mant, dPos + 1, Len(mant))
        okM   == /\ AllIn(ip, Digit) /\ AllIn(fp, Digit)
                 /\ Len(ip) + Len(fp) >= 1
        okE   == es = {} \/ IsSignedDigits(expo)
        ev    == IF es = {} THEN 0 ELSE SignedVal(expo)
        m     == DigitsVal(ip \o fp)
    IN  IF okM /\ okE
        THEN Decimal(IF neg THEN 0 - m ELSE m, ev - Len(fp))
        ELSE <<>>

\* parse_float without the E-8 rule
parse_float_NoSentinel(value) ==
    IF Falsy(value) THEN Zero
    ELSE LET v == Replace(Strip(value), "\n", <<>>)
         IN  IF PyFloat(v) = <<>> THEN Zero ELSE PyFloat(v)

parse_float(value) ==
    IF Falsy(value) THEN Zero
    ELSE LET v == Replace(Strip(value), "\n", <<>>)
         IN  IF Contains(v, Chars("E-8")) \/ Contains(v, Chars("e-8")) THEN Zero
             ELSE IF PyFloat(v) = <<>> THEN Zero
             ELSE PyFloat(v)

parse_int(value) ==
    IF Falsy(value) THEN 0
    ELSE LET v == Replace(Strip(value), "\n", <<>>)
         IN  IF IsSignedDigits(v) THEN SignedVal(v) ELSE 0

-----------------------------------------------------------------------------
(* extract_tags *)

\* the dict sports_keywords, in insertion order
sports_keywords == <<
    <<Chars("NFL"),            {Chars("NFL")}>>,
    <<Chars("NBA"),            {Chars("NBA")}>>,
    <<Chars("EPL"),            {Chars("EPL"), Chars("EPLGAME")}>>,
    <<Chars("Premier League"), {Chars("PREMIERLEAGUE")}>>,
    <<Chars("MLB"),            {Chars("MLB")}>>,
    <<Chars("NHL"),            {Chars("NHL")}>>,
    <<Chars("Soccer"),         {Chars("SOCCER")}>>,
    <<Chars("Football"),       {Chars("FOOTBALL")}>> >>

\* the loop over sports_keywords with its break: the first entry that matches
LeagueTags(text) ==
    LET hits == {i \in 1..Len(sports_keywords) :
                    \E keyword \in sports_keywords[i][2] : Contains(text, keyword)}
    IN  IF hits = {} THEN <<>> ELSE <<sports_keywords[Min(hits)][1]>>

extract_tags(description, symbol) ==
    LET text == Upper(description \o Chars(" ") \o symbol)
    IN  LeagueTags(text)
            \o (IF description # <<>> THEN <<Strip(description)>> ELSE <<>>)

-----------------------------------------------------------------------------
(* The transaction record *)

Transaction(trade_date, asset_type, qty_long, qty_short, subtype, symbol, description, exchange, exp_date, trade_price, trade_type, fees, currency, filename, tags) ==
    [tradeDate    |-> trade_date,
     assetType    |-> asset_type,
     qtyLong      |-> qty_long,
     qtyShort     |-> qty_short,
     subtype      |-> subtype,
     symbol       |-> symbol,
     description  |-> description,
     exchange     |-> exchange,
     expDate      |-> exp_date,
     tradePrice   |-> trade_price,
     tradeType    |-> trade_type,
     commission   |-> fees[1],
     exchangeFees |-> fees[2],
     nfaFees      |-> fees[3],
     totalFees    |-> fees[4],
     currency     |-> currency,
     sourceFile   |-> filename,
     tags         |-> tags]

NoFees == <<Zero, Zero, Zero, Zero>>

\* the test that drops a row or line with a date only
Dropped_DateOnly(trade_date, symbol) == Falsy(trade_date)

\* if not trade_date or not symbol: continue
Dropped(trade_date, symbol) == Falsy(trade_date) \/ Falsy(symbol)

\* x or ''
OrEmpty(v) == IF Falsy(v) THEN <<>> ELSE v

-----------------------------------------------------------------------------
(* parse_monthly_trade_confirmations *)

MinFields == 8

MonthlyStandardFields == 13

\* the branch of the row loop a row of n fields takes
MonthlyBranch(n) ==
    IF n < MinFields THEN "reject"
    ELSE IF n >= MonthlyStandardFields THEN "standard"
    ELSE "compact"

\* one iteration of the row loop: the branch taken and the records appended
MonthlyRow(row, filename) ==
    LET n      == Len(row)
        c      == [i \in 0..(n - 1) |-> clean_value(row[i + 1])]
        branch == MonthlyBranch(n)
        emit(trade_date, asset_type, qty_long, qty_short, subtype, symbol,
             exp_date, trade_price, currency, trade_type, description) ==
            IF Dropped(trade_date, symbol) THEN <<>>
            ELSE <<Transaction(trade_date, asset_type, qty_long, qty_short,
                     subtype, symbol, description, Chars("Kalshi"), exp_date,
                     trade_price, trade_type, NoFees, currency, filename,
                     extract_tags(OrEmpty(description), OrEmpty(symbol)))>>
    IN  [branch |-> branch,
         out |->
            IF branch = "reject" THEN <<>>
            ELSE IF branch = "standard"
            THEN emit(parse_date(c[0]), c[1], parse_int(c[2]), parse_int(c[3]),
                      c[4], c[5], parse_date(c[8]), parse_float(c[9]), c[10],
                      c[11], IF n > 12 THEN c[12] ELSE <<>>)
            ELSE emit(parse_date(c[0]), c[1], parse_int(c[2]), parse_int(c[3]),
                      c[4], IF n > 7 THEN c[7] ELSE <<>>, None,
                      parse_float(c[5]), Chars("USD"), Chars("Trade"),
                      IF n > 8 THEN c[8] ELSE <<>>)]

RECURSIVE Flatten(_)
Flatten(ss) == IF ss = <<>> THEN <<>> ELSE Head(ss) \o Flatten(Tail(ss))

parse_monthly_trade_confirmations(table, filename) ==
    IF Len(table) < 2 THEN <<>>
    ELSE Flatten([k \in 1..(Len(table) - 1) |-> MonthlyRow(table[k + 1], filename).out])

-----------------------------------------------------------------------------
(* parse_trade_confirmation_summary *)

SummaryFullFields == 17

SummaryCompactFields == 10

\* the dispatch with the compact layout starting one field late
SummaryBranch_OffByOne(n) ==
    IF n < MinFields THEN "reject"
    ELSE IF n >= SummaryFullFields THEN "full"
    ELSE IF n > SummaryCompactFields THEN "compact"
    ELSE "very_compact"

SummaryBranch(n) ==
    IF n < MinFields THEN "reject"
    ELSE IF n >= SummaryFullFields THEN "full"
    ELSE IF n >= SummaryCompactFields THEN "compact"
    ELSE "very_compact"

SummaryRow(row, filename) ==
    LET n      == Len(row)
        c      == [i \in 0..(n - 1) |-> clean_value(row[i + 1])]
        branch == SummaryBranch(n)
        emit(trade_date, asset_type, qty_long, qty_short, subtype, avg_long,
             symbol, description, exp_date, fees, currency) ==
            IF Dropped(trade_date, symbol) THEN <<>>
            ELSE <<Transaction(trade_date, asset_type, qty_long, qty_short,
                     subtype, symbol, description, Chars("Kalshi"), exp_date,
                     avg_long, Chars("Trade"), fees, currency, filename,
                     extract_tags(OrEmpty(description), OrEmpty(symbol)))>>
    IN  [branch |-> branch,
         out |->
            IF branch = "reject" THEN <<>>
            ELSE IF branch = "full"
            THEN emit(parse_date(c[0]), c[1], parse_int(c[2]), parse_int(c[3]),
                      c[4], parse_float(c[5]), c[7], c[8],
                      IF n > 11 THEN parse_date(c[11]) ELSE None,
                      <<IF n > 12 THEN parse_float(c[12]) ELSE Zero,
                        IF n > 13 THEN parse_float(c[13]) ELSE Zero,
                        IF n > 14 THEN parse_float(c[14]) ELSE Zero,
                        IF n > 15 THEN parse_float(c[15]) ELSE Zero>>,
                      IF n > 16 THEN c[16] ELSE Chars("USD"))
            ELSE IF branch = "compact"
            THEN emit(parse_date(c[0]), c[1], parse_int(c[2]), parse_int(c[3]),
                      c[4], parse_float(c[5]),
                      IF n > 7 THEN c[7] ELSE <<>>,
                      IF n > 8 THEN c[8] ELSE <<>>,
                      None, NoFees, Chars("USD"))
            ELSE emit(parse_date(c[0]), c[1], parse_int(c[2]), parse_int(c[3]),
                      c[4], parse_float(c[5]),
                      IF n > 6 THEN c[6] ELSE <<>>,
                      IF n > 7 THEN c[7] ELSE <<>>,
                      None, NoFees, Chars("USD"))]

parse_trade_confirmation_summary(table, filename) ==
    IF Len(table) < 2 THEN <<>>
    ELSE Flatten([k \in 1..(Len(table) - 1) |-> SummaryRow(table[k + 1], filename).out])

-----------------------------------------------------------------------------
(* The line grammar of the two text parsers *)

\* the elements of a set of numbers in increasing order
Ordered(S) ==
    [k \in 1..Cardinality(S) |-> CHOOSE i \in S : Cardinality({j \in S : j < i}) = k - 1]

\* the maximal runs of non-whitespace of a line, as <<first, last>> positions:
\* the pieces the \s+ of the patterns separate
Fields(line) ==
    LET first == Ordered({i \in 1..Len(line) :
                    line[i] \notin Space /\ (i = 1 \/ line[i - 1] \in Space)})
        last  == Ordered({i \in 1..Len(line) :
                    line[i] \notin Space /\ (i = Len(line) \/ line[i + 1] \in Space)})
    IN  [k \in 1..Len(first) |-> <<first[k], last[k]>>]

\* \d{4}-\d{2}-\d{2}
IsDateField(t) ==
    /\ Len(t) = 10
    /\ \A i \in {1, 2, 3, 4, 6, 7, 9, 10} : t[i] \in Digit
    /\ t[5] = "-" /\ t[8] = "-"

\* [-\d.E-]+ and [\d.E-]+ are the same class of characters
NumberChar == Digit \cup {"-", ".", "E"}

\* the ten leading groups both patterns share:
\* ^(\d{4}-\d{2}-\d{2})\s+(\w+)\s+(\d+)\s+(\d+)\s+(YES|NO)\s+(\S+)\s+(\w+)
\*  \s+(\d{4}-\d{2}-\d{2})\s+([\d.E-]+)\s+(\w+)\s+
\* Every group but (\S+) excludes whitespace and is followed by \s+, so a group
\* is a whole field of the line; a line starting with whitespace cannot match.
LeadingGroups(line) ==
    LET f    == Fields(line)
        t(k) == SubSeq(line, f[k][1], f[k][2])
    IN  IF /\ Len(f) >= 11
           /\ f[1][1] = 1
           /\ IsDateField(t(1))
           /\ AllIn(t(2), WordChar)
           /\ AllIn(t(3), Digit)
           /\ AllIn(t(4), Digit)
           /\ t(5) \in {Chars("YES"), Chars("NO")}
           /\ AllIn(t(7), WordChar)
           /\ IsDateField(t(8))
           /\ AllIn(t(9), NumberChar)
           /\ AllIn(t(10), WordChar)
        THEN [k \in 1..10 |-> t(k)]
        ELSE <<>>

\* re.match of the pattern of parse_purchase_and_sale_summary_text, whose last
\* group (.+)$ is the rest of the line: the groups, or <<>> for no match
PnsMatch(line) ==
    LET g == LeadingGroups(line)
    IN  IF g = <<>> THEN <<>>
        ELSE g \o <<SubSeq(line, Fields(line)[11][1], Len(line))>>

\* re.match of the pattern of parse_text_transactions, which ends
\* (\w+)\s+(.*?)\s+(.+)$ : the lazy group is the eleventh field when a twelfth
\* follows; with eleven fields only, the \s+ before the lazy group gives one
\* whitespace character back when it holds two or more, the lazy group is
\* empty and the last group is the eleventh field
TextMatch(line) ==
    LET g == LeadingGroups(line)
        f == Fields(line)
    IN  IF g = <<>> THEN <<>>
        ELSE IF Len(f) >= 12
        THEN g \o <<SubSeq(line, f[11][1], f[11][2]),
                    SubSeq(line, f[12][1], Len(line))>>
        ELSE IF f[11][1] - f[10][2] > 2
        THEN g \o <<<<>>, SubSeq(line, f[11][1], Len(line))>>
        ELSE <<>>

SectionHeaders ==
    {Chars("Journal Entries"), Chars("Open Positions"), Chars("Account Summary")}

HasSectionHeader(line) == \E section \in SectionHeaders : Contains(line, section)

-----------------------------------------------------------------------------
(* parse_text_transactions *)

\* one iteration of the line loop: the records appended
TextLine(raw, filename) ==
    LET line   == Strip(raw)
        groups == TextMatch(line)
    IN  IF line = <<>> THEN <<>>
        ELSE IF groups = <<>> THEN <<>>
        ELSE LET trade_date  == parse_date(groups[1])
                 symbol      == groups[6]
                 trade_type  == Strip(groups[11])
                 description == Strip(groups[12])
             IN  IF Dropped(trade_date, symbol) THEN <<>>
                 ELSE <<Transaction(trade_date, groups[2], parse_int(groups[3]),
                          parse_int(groups[4]), groups[5], symbol, description,
                          groups[7], parse_date(groups[8]),
                          parse_float(groups[9]), trade_type, NoFees,
                          groups[10], filename,
                          extract_tags(description, symbol))>>

parse_text_transactions(text, filename) ==
    LET lines == Split(text, "\n")
    IN  Flatten([k \in 1..Len(lines) |-> TextLine(lines[k], filename)])

-----------------------------------------------------------------------------
(* parse_purchase_and_sale_summary_text *)

\* a line that does not match ends the loop as well
PnsBreaks_OnMismatch(raw) ==
    Strip(raw) # <<>> /\ (HasSectionHeader(Strip(raw)) \/ PnsMatch(Strip(raw)) = <<>>)

\* the stripped line ends the loop (break)
PnsBreaks(raw) == Strip(raw) # <<>> /\ HasSectionHeader(Strip(raw))

\* one iteration of the line loop that does not break: the records appended
PnsLine(raw, filename) ==
    LET line   == Strip(raw)
        groups == PnsMatch(line)
    IN  IF line = <<>> THEN <<>>
        ELSE IF groups = <<>> THEN <<>>
        ELSE LET trade_date  == parse_date(groups[1])
                 symbol      == groups[6]
                 description == Strip(groups[11])
             IN  IF Dropped(trade_date, symbol) THEN <<>>
                 ELSE <<Transaction(trade_date, groups[2], parse_int(groups[3]),
                          parse_int(groups[4]), groups[5], symbol, description,
                          groups[7], parse_date(groups[8]),
                          parse_float(groups[9]), Chars("Closed Position"),
                          NoFees, groups[10], filename,
                          extract_tags(description, symbol))>>

\* the lines the loop reaches: those before the first line that breaks
PnsScanned(lines) ==
    LET stops == {k \in 1..Len(lines) : PnsBreaks(lines[k])}
    IN  IF stops = {} THEN lines ELSE SubSeq(lines, 1, Min(stops) - 1)

parse_purchase_and_sale_summary_text(text, filename) ==
    LET lines == PnsScanned(Split(text, "\n"))
    IN  Flatten([k \in 1..Len(lines) |-> PnsLine(lines[k], filename)])

-----------------------------------------------------------------------------
(* parse_pdf *)

\* os.path.basename
Basename(path) ==
    LET slashes == {i \in 1..Len(path) : path[i] = "/"}
    IN  IF slashes = {} THEN path ELSE SubSeq(path, Max(slashes) + 1, Len(path))

SectionName == Chars("Purchase and Sale Summary")

Result(success, error, filename, transactions) ==
    [success          |-> success,
     error            |-> error,
     filename         |-> filename,
     transactionCount |-> Len(transactions),
     transactions     |-> transactions]

\* the slice taken from the header line itself
SectionLines_FromHeader(lines) ==
    LET start_idx == Min({i \in 1..Len(lines) : Contains(lines[i], SectionName)})
        ends      == {i \in (start_idx + 1)..Len(lines) : HasSectionHeader(lines[i])}
        end_idx   == IF ends = {} THEN Len(lines) + 1 ELSE Min(ends)
    IN  SubSeq(lines, start_idx, end_idx - 1)

\* lines[start_idx:end_idx] : the lines after the first line that holds the
\* section name, up to the first line after it that holds a section header
SectionLines(lines) ==
    LET start_idx == Min({i \in 1..Len(lines) : Contains(lines[i], SectionName)})
        ends      == {i \in (start_idx + 1)..Len(lines) : HasSectionHeader(lines[i])}
        end_idx   == IF ends = {} THEN Len(lines) + 1 ELSE Min(ends)
    IN  SubSeq(lines, start_idx + 1, end_idx - 1)

\* the body without the test for the section name: an empty success
LocateAndParse_NoHeaderCheck(text, filename) ==
    IF ~Contains(text, SectionName)
    THEN Result(TRUE, None, filename, <<>>)
    ELSE LET section_text == Join(SectionLines(Split(text, "\n")), "\n")
         IN  Result(TRUE, None, filename,
                    parse_purchase_and_sale_summary_text(section_text, filename))

\* the body of the try block after the with statement
LocateAndParse(text, filename) ==
    IF ~Contains(text, SectionName)
    THEN Result(FALSE, Chars("Purchase and Sale Summary section not found"),
                filename, <<>>)
    ELSE LET section_text == Join(SectionLines(Split(text, "\n")), "\n")
         IN  Result(TRUE, None, filename,
                    parse_purchase_and_sale_summary_text(section_text, filename))

\* an except clause that drops the message
Failure_NoMessage(e, filename) == Result(FALSE, Chars("parse error"), filename, <<>>)

\* the except clause
Failure(e, filename) == Result(FALSE, e, filename, <<>>)

\* a close() after the loop instead of the with statement
WithExit_NoFinally(h, raised) == IF raised THEN h ELSE "closed"

\* the handle when the with statement is left, normally or by an exception
WithExit(h, raised) == "closed"

-----------------------------------------------------------------------------
(* Specification SpecDate: parse_date applied to a family of texts *)

Concat(A, B) == {a \o b : a \in A, b \in B}

Texts(S) == {Chars(s) : s \in S}

YearTexts == Texts({"2025", "2024", "0000", "202", "x025"})

MonthTexts == Texts({"02", "2", "13", "00", "11"})

DayTexts == Texts({"29", "30", "31", "1", "01", " 1", "00", "32", "1x"})

SepTexts == Texts({"-", "\n", "/"})

PadTexts == Texts({"", " ", "\n"})

TailTexts == Texts({"", " ", "\n", "x"})

DateInputs ==
    {None, <<>>} \cup
    Concat(PadTexts, Concat(YearTexts, Concat(SepTexts, Concat(MonthTexts,
        Concat(SepTexts, Concat(DayTexts, TailTexts))))))

Idle ==
    /\ handle = "none" /\ page_i = 0 /\ all_text = <<>> /\ exc = None
    /\ branches = <<>>

DateInit == pc = "call" /\ arg \in DateInputs /\ ret = None /\ Idle

CallParseDate ==
    /\ pc = "call"
    /\ ret' = parse_date(arg)
    /\ pc' = "done"
    /\ UNCHANGED <<arg, handle, page_i, all_text, exc, branches>>

SpecDate == DateInit /\ [][CallParseDate]_vars

\* the date a text of the strict form YYYY-MM-DD (hyphens or newlines as
\* separators) denotes, <<>> when the text has not that form or names no
\* calendar date
StrictDate(t) ==
    IF /\ Len(t) = 10
       /\ \A i \in {1, 2, 3, 4, 6, 7, 9, 10} : t[i] \in Digit
       /\ t[5] \in {"-", "\n"} /\ t[8] \in {"-", "\n"}
    THEN LET y == DigitsVal(SubSeq(t, 1, 4))
             m == DigitsVal(SubSeq(t, 6, 7))
             d == DigitsVal(SubSeq(t, 9, 10))
         IN  IF y >= 1 /\ m \in 1..12 /\ d >= 1 /\ d <= DaysInMonth(y, m)
             THEN <<y, m, d>> ELSE <<>>
    ELSE <<>>

Midnight(ymd) ==
    Pad(ymd[1], 4) \o Chars("-") \o Pad(ymd[2], 2) \o Chars("-") \o Pad(ymd[3], 2)
        \o Chars("T00:00:00")

\* C10 as stated: a strict YYYY-MM-DD text of a calendar date gives its
\* midnight timestamp, and every other text (unpadded fields, surrounding
\* whitespace, empty, absent) gives absent.
C10_AsStated ==
    pc = "done" =>
        IF arg # None /\ StrictDate(arg) # <<>>
        THEN ret = Midnight(StrictDate(arg))
        ELSE ret = None

\* the date of a text YYYY-M-D: four-digit year from 0001, month of one or two
\* digits in 1..12, day of one or two digits (or a space and a digit) that
\* exists in the month; <<>> for any other text
LenientDate(t) ==
    LET parts == Split(t, "-")
        num(p) == Len(p) \in {1, 2} /\ AllIn(p, Digit)
    IN  IF /\ Len(parts) = 3
           /\ Len(parts[1]) = 4 /\ AllIn(parts[1], Digit)
           /\ num(parts[2])
           /\ \/ num(parts[3])
              \/ Len(parts[3]) = 2 /\ parts[3][1] = " " /\ parts[3][2] \in Digit
        THEN LET y == DigitsVal(parts[1])
                 m == DigitsVal(parts[2])
                 d == DigitsVal(Strip(parts[3]))
             IN  IF y >= 1 /\ m \in 1..12 /\ d >= 1 /\ d <= DaysInMonth(y, m)
                 THEN <<y, m, d>> ELSE <<>>
        ELSE <<>>

\* C10 (amended): parse_date strips surrounding whitespace and reads each
\* newline left as a hyphen; a text that is then YYYY-M-D (month and day of one
\* or two digits, the day also as a space and a digit) naming a calendar date
\* of year 0001 or later gives the zero-padded midnight timestamp of that
\* date, and every other text, the empty and the absent one included, gives
\* absent.
C10_ParseDate ==
    pc = "done" =>
        LET t == IF Falsy(arg) THEN <<>> ELSE Replace(Strip(arg), "\n", Chars("-"))
        IN  IF LenientDate(t) # <<>>
            THEN ret = Midnight(LenientDate(t))
            ELSE ret = None

\* an unpadded text between whitespace has been parsed to a timestamp
C10_Witness ==
    /\ pc = "done"
    /\ arg = Chars(" 2025\n2-1\n")
    /\ ret = Chars("2025-02-01T00:00:00")

-----------------------------------------------------------------------------
(* Specification SpecTags: extract_tags applied to descriptions and symbols *)

Descriptions ==
    Texts({"", " ", "\t ", "Manchester City", " Lakers nba ", "NFL Football",
           "football", "Premier League", "soccer epl", "premierleague",
           "Mets\n", "mlb nhl"})

Symbols ==
    Texts({"", "KXEPLGAME-25SEP14MCIMUN-MCI", "KXNFLGAME-X", "KXNBA",
           "KXMLBGAME", "KXNHL", "PREMIERLEAGUE-1", "SOCCER", "FOOTBALL",
           "kxnfl", "X"})

TagsInit ==
    /\ pc = "call"
    /\ arg \in {<<d, s>> : d \in Descriptions, s \in Symbols}
    /\ ret = None
    /\ Idle

CallExtractTags ==
    /\ pc = "call"
    /\ ret' = extract_tags(arg[1], arg[2])
    /\ pc' = "done"
    /\ UNCHANGED <<arg, handle, page_i, all_text, exc, branches>>

SpecTags == TagsInit /\ [][CallExtractTags]_vars

\* the league labels in the order of the keyword table
LeagueOrder ==
    <<Chars("NFL"), Chars("NBA"), Chars("EPL"), Chars("Premier League"),
      Chars("MLB"), Chars("NHL"), Chars("Soccer"), Chars("Football")>>

\* C9: extract_tags returns the label of the first table entry with a keyword
\* in the uppercased 'description identifier' text (if any), followed by the
\* trimmed description exactly when the trimmed description is non-empty; at
\* most two tags, none of them empty.
C9_ExtractTags ==
    pc = "done" =>
        LET text    == Upper(arg[1] \o Chars(" ") \o arg[2])
            matches == {i \in 1..Len(LeagueOrder) :
                           \E kw \in sports_keywords[i][2] : Contains(text, kw)}
            league  == IF matches = {} THEN <<>>
                       ELSE <<LeagueOrder[Min(matches)]>>
            trimmed == Strip(arg[1])
        IN  /\ ret = league \o (IF trimmed # <<>> THEN <<trimmed>> ELSE <<>>)
            /\ Len(ret) <= 2
            /\ \A i \in 1..Len(ret) : ret[i] # <<>>

-----------------------------------------------------------------------------
(* Specification SpecParsers: the four parsers applied to tables and texts *)

FileName == Chars("stmt.pdf")

\* Lines of statement text.  ok_pns / ok_text say whether the line is
\* well-formed for parse_purchase_and_sale_summary_text / for
\* parse_text_transactions: it has the shape of the grammar and its first
\* date is a calendar date.  symbol is its identifier field.
LineCases == <<
    [text |-> Chars("2025-09-01 SW 20 0 YES KXEPLGAME-25SEP14MCIMUN-MCI Kalshi 2025-09-14 -10.08 USD Manchester City"),
     symbol |-> Chars("KXEPLGAME-25SEP14MCIMUN-MCI"), ok_pns |-> TRUE, ok_text |-> TRUE],
    [text |-> Chars("2025-09-02 SW 0 5 NO KXNFLGAME-A Kalshi 2025-09-20 4.5 USD Trade Chiefs win"),
     symbol |-> Chars("KXNFLGAME-A"), ok_pns |-> TRUE, ok_text |-> TRUE],
    [text |-> Chars("2025-09-06 SW 3 0 YES KXNHL-F Kalshi 2025-10-01 2.25 USD Bruins"),
     symbol |-> Chars("KXNHL-F"), ok_pns |-> TRUE, ok_text |-> FALSE],
    [text |-> Chars("2025-09-05 SW 2 0 NO KXSOC-E Kalshi 2025-09-30 -1 USD Account Summary Cup"),
     symbol |-> Chars("KXSOC-E"), ok_pns |-> TRUE, ok_text |-> TRUE],
    [text |-> Chars("  2025-09-03 SW 1 0 YES KXMLB-B Kalshi 2025-09-30 5E-8 USD Closed Mets\t"),
     symbol |-> Chars("KXMLB-B"), ok_pns |-> TRUE, ok_text |-> TRUE],
    [text |-> Chars("2025-09-07 SW 1 0 NO KXNBA-G Kalshi 2025-10-02 3 USD  Lakers"),
     symbol |-> Chars("KXNBA-G"), ok_pns |-> TRUE, ok_text |-> TRUE],
    [text |-> Chars("Trade Date AT Qty Long Qty Short Subtype Symbol"),
     symbol |-> <<>>, ok_pns |-> FALSE, ok_text |-> FALSE],
    [text |-> Chars("2025-02-30 SW 1 0 YES KXNBA-C Kalshi 2025-09-14 1.0 USD Trade Lakers"),
     symbol |-> Chars("KXNBA-C"), ok_pns |-> FALSE, ok_text |-> FALSE],
    [text |-> Chars("Open Positions"),
     symbol |-> <<>>, ok_pns |-> FALSE, ok_text |-> FALSE],
    [text |-> <<>>,
     symbol |-> <<>>, ok_pns |-> FALSE, ok_text |-> FALSE] >>

MaxLines == 3

\* sequences of at most n elements of S
RECURSIVE SeqsUpTo(_, _)
SeqsUpTo(S, n) ==
    IF n = 0 THEN {<<>>}
    ELSE LET shorter == SeqsUpTo(S, n - 1)
         IN  shorter \cup {Append(q, x) : q \in {r \in shorter : Len(r) = n - 1}, x \in S}

TextOf(cases) == Join([k \in 1..Len(cases) |-> LineCases[cases[k]].text], "\n")

LineInputs ==
    {[fn |-> fn, cases |-> cs, text |-> TextOf(cs), filename |-> FileName] :
        fn \in {"text", "pns"},
        cs \in SeqsUpTo(1..Len(LineCases), MaxLines) \ {<<>>}}

MaxFields == 18

MaxRows == 2

\* the text of field i of a table row: the number 100 + i
CellText(i) == Pad(100 + i, 3)

RowKinds ==
    {"plain", "nodate", "splitdate", "blank5", "blank6", "blank7", "none7", "dates"}

\* a row of n fields; kind says what differs from the plain row, whose first
\* field is a date and whose field i is CellText(i)
Row(n, kind) ==
    [j \in 1..n |->
        LET i == j - 1
        IN  IF i = 0 THEN
                (IF kind = "nodate" THEN None
                 ELSE IF kind = "splitdate" THEN Chars("2025\n09-01")
                 ELSE Chars("2025-09-01"))
            ELSE IF kind = "blank5" /\ i = 5 THEN Chars(" \n")
            ELSE IF kind = "blank6" /\ i = 6 THEN <<>>
            ELSE IF kind = "blank7" /\ i = 7 THEN None
            ELSE IF kind = "none7" /\ i = 7 THEN Chars("None")
            ELSE IF kind = "dates" /\ i \in {8, 11} THEN Chars("2025-09-14")
            ELSE CellText(i)]

HeaderRow == <<Chars("Trade Date"), Chars("AT"), Chars("Qty Long")>>

Rows == {[n |-> n, kind |-> kind] : n \in 0..MaxFields, kind \in RowKinds}

\* rows of the tables of several rows
FewRows ==
    {[n |-> 17, kind |-> "plain"], [n |-> 13, kind |-> "nodate"],
     [n |-> 8, kind |-> "dates"], [n |-> 7, kind |-> "plain"]}

\* the table with one row of each width, narrowest first
SweepRows == [k \in 1..(MaxFields + 1) |-> [n |-> k - 1, kind |-> "dates"]]

TableOf(rows) == <<HeaderRow>> \o [k \in 1..Len(rows) |-> Row(rows[k].n, rows[k].kind)]

TableInputs ==
    {[fn |-> fn, rows |-> rs, table |-> t, filename |-> FileName] :
        fn \in {"monthly", "summary"},
        rs \in {<<>>}, t \in {<<>>, <<HeaderRow>>}}
    \cup
    {[fn |-> fn, rows |-> rs, table |-> TableOf(rs), filename |-> FileName] :
        fn \in {"monthly", "summary"},
        rs \in {<<r>> : r \in Rows} \cup SeqsUpTo(FewRows, MaxRows) \cup {SweepRows}}

ParsersInit ==
    /\ pc = "call"
    /\ arg \in LineInputs \cup TableInputs
    /\ ret = None
    /\ Idle

DataRows(table) == IF Len(table) < 2 THEN <<>> ELSE Tail(table)

CallMonthly ==
    /\ pc = "call" /\ arg.fn = "monthly"
    /\ ret' = parse_monthly_trade_confirmations(arg.table, arg.filename)
    /\ branches' = [k \in 1..Len(DataRows(arg.table)) |->
                        MonthlyRow(DataRows(arg.table)[k], arg.filename).branch]
    /\ pc' = "done"
    /\ UNCHANGED <<arg, handle, page_i, all_text, exc>>

CallSummary ==
    /\ pc = "call" /\ arg.fn = "summary"
    /\ ret' = parse_trade_confirmation_summary(arg.table, arg.filename)
    /\ branches' = [k \in 1..Len(DataRows(arg.table)) |->
                        SummaryRow(DataRows(arg.table)[k], arg.filename).branch]
    /\ pc' = "done"
    /\ UNCHANGED <<arg, handle, page_i, all_text, exc>>

CallText ==
    /\ pc = "call" /\ arg.fn = "text"
    /\ ret' = parse_text_transactions(arg.text, arg.filename)
    /\ pc' = "done"
    /\ UNCHANGED <<arg, handle, page_i, all_text, exc, branches>>

CallPns ==
    /\ pc = "call" /\ arg.fn = "pns"
    /\ ret' = parse_purchase_and_sale_summary_text(arg.text, arg.filename)
    /\ pc' = "done"
    /\ UNCHANGED <<arg, handle, page_i, all_text, exc, branches>>

ParsersNext == CallMonthly \/ CallSummary \/ CallText \/ CallPns

SpecParsers == ParsersInit /\ [][ParsersNext]_vars

\* the line cases of the input that are well-formed for the parser called
OkCase(c) == IF arg.fn = "pns" THEN LineCases[c].ok_pns ELSE LineCases[c].ok_text

\* the well-formed cases of a sequence of cases, in order
GoodOf(cases) ==
    LET at == Ordered({k \in 1..Len(cases) : OkCase(cases[k])})
    IN  [j \in 1..Len(at) |-> cases[at[j]]]

OneMalformed == Cardinality({k \in 1..Len(arg.cases) : ~OkCase(arg.cases[k])}) = 1

\* the records are those of the well-formed lines, one each and in order
SiblingsKept ==
    LET good == GoodOf(arg.cases)
    IN  /\ Len(ret) = Len(arg.cases) - 1
        /\ Len(ret) = Len(good)
        /\ \A k \in 1..Len(good) : ret[k].symbol = LineCases[good[k]].symbol

\* C4 as stated: for both line parsers, N lines of which exactly one is
\* malformed give N-1 records in the order of their lines, whatever the
\* malformed line holds and wherever it stands.
C4_AsStated ==
    (pc = "done" /\ arg.fn \in {"text", "pns"} /\ OneMalformed) => SiblingsKept

NoSectionLine ==
    \A k \in 1..Len(arg.cases) : ~HasSectionHeader(LineCases[arg.cases[k]].text)

\* the cases before the first line that holds a section header
BeforeSection ==
    LET stops == {k \in 1..Len(arg.cases) : HasSectionHeader(LineCases[arg.cases[k]].text)}
    IN  IF stops = {} THEN arg.cases ELSE SubSeq(arg.cases, 1, Min(stops) - 1)

\* C4 (amended): N lines of which exactly one is malformed give N-1 records in
\* the order of their lines, whatever the malformed line holds and wherever it
\* stands, in parse_text_transactions always and in
\* parse_purchase_and_sale_summary_text when no line holds 'Journal Entries',
\* 'Open Positions' or 'Account Summary'; a line that holds one of them ends
\* the scan of parse_purchase_and_sale_summary_text, whose records are then
\* those of the well-formed lines before it.
C4_SiblingsKept ==
    (pc = "done" /\ arg.fn \in {"text", "pns"}) =>
        /\ (OneMalformed /\ (arg.fn = "pns" => NoSectionLine)) => SiblingsKept
        /\ arg.fn = "pns" =>
             LET good == GoodOf(BeforeSection)
             IN  /\ Len(ret) = Len(good)
                 /\ \A k \in 1..Len(good) : ret[k].symbol = LineCases[good[k]].symbol

\* three lines with a malformed one in the middle gave the two records of its
\* neighbours, in parse_purchase_and_sale_summary_text
C4_Witness ==
    /\ pc = "done" /\ arg.fn = "pns"
    /\ Len(arg.cases) = 3
    /\ OkCase(arg.cases[1]) /\ ~OkCase(arg.cases[2]) /\ OkCase(arg.cases[3])
    /\ NoSectionLine
    /\ Len(ret) = 2
    /\ ret[1].symbol # ret[2].symbol

\* the rows or lines the call was given
Candidates ==
    IF arg.fn \in {"text", "pns"} THEN Len(arg.cases) ELSE Len(DataRows(arg.table))

HasBoth(r) == r.tradeDate # None /\ r.symbol # None /\ r.symbol # <<>>

\* a table row with an empty symbol field was left out
C5_Witness ==
    /\ pc = "done" /\ arg.fn = "monthly"
    /\ Len(arg.rows) = 1 /\ arg.rows[1].n = 13 /\ arg.rows[1].kind = "blank5"
    /\ ret = <<>>

\* the branches taken by the rows of 8 fields or more
BranchesTaken == {branches[k] : k \in 1..Len(branches)} \ {"reject"}

\* C8 as stated: in each table parser a row of fewer than 8 fields is left
\* out and the rows of 8 fields or more are spread over three layout branches.
C8_AsStated ==
    (pc = "done" /\ arg.fn \in {"monthly", "summary"} /\ arg.rows = SweepRows) =>
        /\ \A k \in 1..Len(arg.rows) : arg.rows[k].n < 8 => branches[k] = "reject"
        /\ Cardinality(BranchesTaken) = 3

\* the layout a row of n fields belongs to
Layout(fn, n) ==
    IF n < 8 THEN "reject"
    ELSE IF fn = "monthly" THEN (IF n <= 12 THEN "compact" ELSE "standard")
    ELSE (IF n <= 9 THEN "very_compact" ELSE IF n <= 16 THEN "compact" ELSE "full")

\* the fields (counted from 0) a layout reads the symbol, the description and
\* the price from
SymbolField(fn, layout) ==
    IF fn = "monthly" /\ layout = "standard" THEN 5
    ELSE IF layout = "very_compact" THEN 6 ELSE 7

DescriptionField(fn, layout) ==
    IF fn = "monthly" /\ layout = "standard" THEN 12
    ELSE IF layout = "very_compact" THEN 7 ELSE 8

PriceField(fn, layout) == IF fn = "monthly" /\ layout = "standard" THEN 9 ELSE 5

\* C8 (amended): a row of fewer than 8 fields is left out without raising;
\* parse_trade_confirmation_summary maps a row of 8 fields or more by exactly
\* one of three branches (very compact 8-9, compact 10-16, full 17 and more),
\* parse_monthly_trade_confirmations by exactly one of two (compact 8-12,
\* standard 13 and more), each branch with its own field positions.
C8_LayoutDispatch ==
    (pc = "done" /\ arg.fn \in {"monthly", "summary"}) =>
        /\ Len(branches) = Len(arg.rows)
        /\ \A k \in 1..Len(arg.rows) : branches[k] = Layout(arg.fn, arg.rows[k].n)
        /\ (\A k \in 1..Len(arg.rows) : arg.rows[k].n < 8) => ret = <<>>
        /\ (Len(arg.rows) = 1 /\ arg.rows[1].kind = "plain" /\ arg.rows[1].n >= 8) =>
              LET n      == arg.rows[1].n
                  layout == Layout(arg.fn, n)
                  desc   == DescriptionField(arg.fn, layout)
              IN  /\ Len(ret) = 1
                  /\ ret[1].symbol = CellText(SymbolField(arg.fn, layout))
                  /\ ret[1].tradePrice = <<100 + PriceField(arg.fn, layout), 0>>
                  /\ ret[1].description = IF desc < n THEN CellText(desc) ELSE <<>>

\* the summary parser mapped the table that holds a row of every width, and
\* took its three branches
C8_Witness ==
    /\ pc = "done" /\ arg.fn = "summary" /\ arg.rows = SweepRows
    /\ BranchesTaken = {"very_compact", "compact", "full"}
    /\ Len(ret) = MaxFields + 1 - 8

-----------------------------------------------------------------------------
(* Specification SpecPdf: parse_pdf on documents of a few pages *)

MaxPages == 3

\* Lines of a statement.  A case whose line has the shape of the grammar
\* carries the record the line stands for: number is the value its NUMBER
\* field denotes (<<>> if it denotes none), price the tradePrice of the record.
PdfLines == <<
    [text |-> Chars("2025-09-01 SW 20 0 YES KXEPLGAME-25SEP14MCIMUN-MCI Kalshi 2025-09-14 -10.08 USD Manchester City"),
     shaped |-> TRUE, dated |-> TRUE,
     tradeDate |-> Chars("2025-09-01T00:00:00"), assetType |-> Chars("SW"),
     qtyLong |-> 20, qtyShort |-> 0, subtype |-> Chars("YES"),
     symbol |-> Chars("KXEPLGAME-25SEP14MCIMUN-MCI"), exchange |-> Chars("Kalshi"),
     expDate |-> Chars("2025-09-14T00:00:00"), number |-> <<-1008, -2>>,
     price |-> <<-1008, -2>>, currency |-> Chars("USD"),
     description |-> Chars("Manchester City"),
     tags |-> <<Chars("EPL"), Chars("Manchester City")>>],
    [text |-> Chars("  2025-09-03 SW 1 0 YES KXMLB-B Kalshi 2025-09-30 5E-8 USD Closed Mets\t"),
     shaped |-> TRUE, dated |-> TRUE,
     tradeDate |-> Chars("2025-09-03T00:00:00"), assetType |-> Chars("SW"),
     qtyLong |-> 1, qtyShort |-> 0, subtype |-> Chars("YES"),
     symbol |-> Chars("KXMLB-B"), exchange |-> Chars("Kalshi"),
     expDate |-> Chars("2025-09-30T00:00:00"), number |-> <<5, -8>>,
     price |-> <<0, 0>>, currency |-> Chars("USD"),
     description |-> Chars("Closed Mets"),
     tags |-> <<Chars("MLB"), Chars("Closed Mets")>>],
    [text |-> Chars("2025-09-05 SW 2 10 NO KXSOC-E Kalshi 2025-09-30 -1 EUR Account Summary Cup"),
     shaped |-> TRUE, dated |-> TRUE,
     tradeDate |-> Chars("2025-09-05T00:00:00"), assetType |-> Chars("SW"),
     qtyLong |-> 2, qtyShort |-> 10, subtype |-> Chars("NO"),
     symbol |-> Chars("KXSOC-E"), exchange |-> Chars("Kalshi"),
     expDate |-> Chars("2025-09-30T00:00:00"), number |-> <<-1, 0>>,
     price |-> <<-1, 0>>, currency |-> Chars("EUR"),
     description |-> Chars("Account Summary Cup"),
     tags |-> <<Chars("Account Summary Cup")>>],
    [text |-> Chars("2025-09-07 XY 0 3 NO KXNBA-G Polymarket 2025-10-02 1.2.3 USD Purchase and Sale Summary"),
     shaped |-> TRUE, dated |-> TRUE,
     tradeDate |-> Chars("2025-09-07T00:00:00"), assetType |-> Chars("XY"),
     qtyLong |-> 0, qtyShort |-> 3, subtype |-> Chars("NO"),
     symbol |-> Chars("KXNBA-G"), exchange |-> Chars("Polymarket"),
     expDate |-> Chars("2025-10-02T00:00:00"), number |-> <<>>,
     price |-> <<0, 0>>, currency |-> Chars("USD"),
     description |-> Chars("Purchase and Sale Summary"),
     tags |-> <<Chars("NBA"), Chars("Purchase and Sale Summary")>>],
    [text |-> Chars("2025-02-30 SW 1 0 YES KXNFL-C Kalshi 2025-09-14 1.0 USD Lakers"),
     shaped |-> TRUE, dated |-> FALSE],
    [text |-> Chars("Purchase and Sale Summary"), shaped |-> FALSE, dated |-> FALSE],
    [text |-> Chars("Open Positions"), shaped |-> FALSE, dated |-> FALSE],
    [text |-> Chars("Journal Entries"), shaped |-> FALSE, dated |-> FALSE] >>

\* the pages of the documents: the line cases extract_text returns for the
\* page, <<>> for a page whose text is empty, NoText for a page without text
\* (extract_text returns None)
NoText == <<0>>

PdfPages ==
    {NoText, <<>>} \cup {<<c>> : c \in 1..Len(PdfLines)} \cup {<<2, 6>>, <<8, 1>>}

PageText(page) ==
    IF page = NoText THEN None
    ELSE Join([k \in 1..Len(page) |-> PdfLines[page[k]].text], "\n")

PdfPath == Chars("/statements/2025/stmt.pdf")

PdfInputs ==
    {[fn |-> "pdf", pdf_path |-> PdfPath, pages |-> ps] :
        ps \in SeqsUpTo(PdfPages, MaxPages)}

\* the messages of the exceptions pdfplumber raises
Errors == {Chars("No such file or directory"), Chars("Unexpected EOF")}

PdfInit ==
    /\ pc = "open"
    /\ arg \in PdfInputs
    /\ ret = None
    /\ Idle

\* pdfplumber.open returns the document
Open ==
    /\ pc = "open"
    /\ handle' = "open"
    /\ pc' = "pages"
    /\ UNCHANGED <<arg, ret, page_i, all_text, exc, branches>>

\* pdfplumber.open raises
OpenRaises ==
    /\ pc = "open"
    /\ \E e \in Errors : exc' = e
    /\ pc' = "except"
    /\ UNCHANGED <<arg, ret, handle, page_i, all_text, branches>>

\* one iteration of the loop over pdf.pages
ExtractPage ==
    /\ pc = "pages" /\ page_i < Len(arg.pages)
    /\ LET text == PageText(arg.pages[page_i + 1])
       IN  all_text' = IF Falsy(text) THEN all_text
                       ELSE all_text \o text \o Chars("\n")
    /\ page_i' = page_i + 1
    /\ UNCHANGED <<pc, arg, ret, handle, exc, branches>>

\* pdf.pages or page.extract_text raises: the with statement is left
ExtractRaises ==
    /\ pc = "pages" /\ page_i < Len(arg.pages)
    /\ \E e \in Errors : exc' = e
    /\ handle' = WithExit(handle, TRUE)
    /\ pc' = "except"
    /\ UNCHANGED <<arg, ret, page_i, all_text, branches>>

\* the loop is over: the with statement is left
LeaveWith ==
    /\ pc = "pages" /\ page_i = Len(arg.pages)
    /\ handle' = WithExit(handle, FALSE)
    /\ pc' = "locate"
    /\ UNCHANGED <<arg, ret, page_i, all_text, exc, branches>>

\* the section is located and parsed, the result returned
Locate ==
    /\ pc = "locate"
    /\ ret' = LocateAndParse(all_text, Basename(arg.pdf_path))
    /\ pc' = "returned"
    /\ UNCHANGED <<arg, handle, page_i, all_text, exc, branches>>

\* an exception is raised while the section is located or parsed
LocateRaises ==
    /\ pc = "locate"
    /\ \E e \in Errors : exc' = e
    /\ pc' = "except"
    /\ UNCHANGED <<arg, ret, handle, page_i, all_text, branches>>

\* except Exception as e: the failure result is returned
Except ==
    /\ pc = "except"
    /\ ret' = Failure(exc, Basename(arg.pdf_path))
    /\ pc' = "returned"
    /\ UNCHANGED <<arg, handle, page_i, all_text, exc, branches>>

PdfNext ==
    \/ Open \/ OpenRaises \/ ExtractPage \/ ExtractRaises \/ LeaveWith
    \/ Locate \/ LocateRaises \/ Except

SpecPdf == PdfInit /\ [][PdfNext]_vars

\* both families of calls: the four parsers and parse_pdf
SpecParsersPdf == (ParsersInit \/ PdfInit) /\ [][ParsersNext \/ PdfNext]_vars

\* the line cases of the document, page after page
DocCases == Flatten([k \in 1..Len(arg.pages) |->
                        IF arg.pages[k] = NoText THEN <<>> ELSE arg.pages[k]])

IsHeaderCase(c) == Contains(PdfLines[c].text, Chars("Purchase and Sale Summary"))

IsBoundaryCase(c) ==
    \/ Contains(PdfLines[c].text, Chars("Journal Entries"))
    \/ Contains(PdfLines[c].text, Chars("Open Positions"))
    \/ Contains(PdfLines[c].text, Chars("Account Summary"))

HasHeader == \E k \in 1..Len(DocCases) : IsHeaderCase(DocCases[k])

\* the cases strictly between the first header line and the first boundary
\* line after it
SliceCases ==
    LET hdr  == Min({k \in 1..Len(DocCases) : IsHeaderCase(DocCases[k])})
        bnds == {k \in (hdr + 1)..Len(DocCases) : IsBoundaryCase(DocCases[k])}
        bnd  == IF bnds = {} THEN Len(DocCases) + 1 ELSE Min(bnds)
    IN  SubSeq(DocCases, hdr + 1, bnd - 1)

\* the cases of a sequence that stand for a record, in order
RecordCases(cases) ==
    LET at == Ordered({k \in 1..Len(cases) :
                  PdfLines[cases[k]].shaped /\ PdfLines[cases[k]].dated})
    IN  [j \in 1..Len(at) |-> cases[at[j]]]

\* parse_pdf returned without an exception having been raised
Returned == pc = "returned" /\ exc = None

\* C1: a document no line of which holds 'Purchase and Sale Summary' gives
\* the failure result with the message 'Purchase and Sale Summary section not
\* found', a count of 0 and no record.
C1_SectionNotFound ==
    (Returned /\ ~HasHeader) =>
        /\ ret.success = FALSE
        /\ ret.transactionCount = 0
        /\ ret.transactions = <<>>
        /\ ret.error = Chars("Purchase and Sale Summary section not found")

\* a document of transaction lines without the header was refused
C1_Witness ==
    /\ Returned /\ ~HasHeader
    /\ \E k \in 1..Len(DocCases) : PdfLines[DocCases[k]].shaped /\ PdfLines[DocCases[k]].dated
    /\ ret.success = FALSE

\* C2: the records returned are those of the lines strictly after the first
\* header line and strictly before the first boundary line after it (or the
\* end of the text), one per line and in order; no line outside gives one.
C2_SectionSlice ==
    (Returned /\ HasHeader) =>
        LET good == RecordCases(SliceCases)
        IN  /\ ret.success = TRUE
            /\ ret.transactionCount = Len(good)
            /\ Len(ret.transactions) = Len(good)
            /\ \A k \in 1..Len(good) :
                  /\ ret.transactions[k].symbol = PdfLines[good[k]].symbol
                  /\ ret.transactions[k].tradeDate = PdfLines[good[k]].tradeDate
                  /\ ret.transactions[k].description = PdfLines[good[k]].description

\* a document with transaction lines before the header, in the section and
\* after the boundary gave the records of the section only
C2_Witness ==
    /\ Returned /\ HasHeader
    /\ arg.pages = <<<<2, 6>>, <<1>>, <<8, 1>>>>
    /\ ret.transactionCount = 1
    /\ ret.transactions[1].symbol = Chars("KXEPLGAME-25SEP14MCIMUN-MCI")

\* C3: an exception raised while the document is opened, its pages are
\* extracted or the section is located and parsed is turned into the failure
\* result that carries its message, with a count of 0 and no record; no
\* failed call returns records, and no call ends otherwise than by returning.
C3_FailureShape ==
    /\ pc \in {"open", "pages", "locate", "except", "returned"}
    /\ (pc = "returned" /\ exc # None) =>
          ret = [success |-> FALSE, error |-> exc,
                 filename |-> Chars("stmt.pdf"),
                 transactionCount |-> 0, transactions |-> <<>>]
    /\ (pc = "returned" /\ ~ret.success) =>
          ret.transactions = <<>> /\ ret.transactionCount = 0
    /\ pc = "except" => exc # None

\* the extraction of a later page raised after text with the header and a
\* transaction line was gathered, and the failure result was returned
C3_Witness ==
    /\ pc = "returned" /\ exc = Chars("Unexpected EOF")
    /\ page_i = 2 /\ Len(arg.pages) = 3
    /\ Contains(all_text, Chars("Purchase and Sale Summary\n2025-09-01 SW"))
    /\ ret.success = FALSE

\* the record a line case stands for, with the given tradePrice
RecordOf(c, price) ==
    [tradeDate    |-> PdfLines[c].tradeDate,
     assetType    |-> PdfLines[c].assetType,
     qtyLong      |-> PdfLines[c].qtyLong,
     qtyShort     |-> PdfLines[c].qtyShort,
     subtype      |-> PdfLines[c].subtype,
     symbol       |-> PdfLines[c].symbol,
     description  |-> PdfLines[c].description,
     exchange     |-> PdfLines[c].exchange,
     expDate      |-> PdfLines[c].expDate,
     tradePrice   |-> price,
     tradeType    |-> Chars("Closed Position"),
     commission   |-> <<0, 0>>,
     exchangeFees |-> <<0, 0>>,
     nfaFees      |-> <<0, 0>>,
     totalFees    |-> <<0, 0>>,
     currency     |-> PdfLines[c].currency,
     sourceFile   |-> Chars("stmt.pdf"),
     tags         |-> PdfLines[c].tags]

\* C6 as stated: every line of the section that matches the grammar with
\* valid dates gives one record whose fields are the groups of the grammar,
\* tradePrice being the number of the NUMBER group.
C6_AsStated ==
    (Returned /\ HasHeader) =>
        LET good == RecordCases(SliceCases)
        IN  /\ Len(ret.transactions) = Len(good)
            /\ \A k \in 1..Len(good) :
                  PdfLines[good[k]].number # <<>> =>
                      ret.transactions[k] = RecordOf(good[k], PdfLines[good[k]].number)

\* C6 (amended): every line of the section that matches the grammar with
\* valid dates gives exactly one record whose fields are the groups of the
\* grammar in order, tradeType 'Closed Position', the four fees 0.0 and
\* sourceFile the base name of the document; tradePrice is the number of the
\* NUMBER group, except that it is 0.0 when the group holds 'E-8' or is no
\* float literal.
C6_RecordOfLine ==
    (Returned /\ HasHeader) =>
        LET good == RecordCases(SliceCases)
        IN  /\ Len(ret.transactions) = Len(good)
            /\ \A k \in 1..Len(good) :
                  ret.transactions[k] = RecordOf(good[k], PdfLines[good[k]].price)

\* the line of the module docstring and a line whose number is 5E-8 stood in
\* the section and gave their records
C6_Witness ==
    /\ Returned
    /\ arg.pages = <<<<6>>, <<1>>, <<2>>>>
    /\ ret.transactionCount = 2
    /\ ret.transactions[1].qtyLong = 20 /\ ret.transactions[1].qtyShort = 0
    /\ ret.transactions[1].tradePrice = <<-1008, -2>>
    /\ ret.transactions[1].tags = <<Chars("EPL"), Chars("Manchester City")>>
    /\ ret.transactions[2].tradePrice = <<0, 0>>

\* C7: the document handle is released before parse_pdf goes on: it is not
\* open once the with statement is left, be it normally or by an exception,
\* and never when the result is returned; a call that opened the document
\* returns with the handle closed.
C7_HandleReleased ==
    /\ pc \in {"locate", "except", "returned"} => handle # "open"
    /\ (pc = "returned" /\ (page_i > 0 \/ exc = None)) => handle = "closed"

\* an exception was raised while the pages were iterated, and the result was
\* returned with the handle closed
C7_Witness ==
    /\ pc = "returned" /\ exc # None
    /\ page_i = 1 /\ Len(arg.pages) > 1
    /\ handle = "closed"

\* C5: every record a parser emits has a tradeDate and a non-empty symbol; a
\* row or line that does not yield both is left out: the parser still returns
\* its list, and parse_pdf still reports success.
C5_MandatoryFields ==
    /\ (pc = "done" /\ arg.fn \in {"monthly", "summary", "text", "pns"}) =>
          /\ Len(ret) <= Candidates
          /\ \A k \in 1..Len(ret) : HasBoth(ret[k])
          /\ arg.fn \in {"monthly", "summary"} =>
                \* a row whose first field is no date yields nothing
                Len(ret) <= Cardinality({k \in 1..Len(arg.rows) :
                                arg.rows[k].kind \notin {"nodate", "splitdate"}})
          /\ arg.fn \in {"text", "pns"} =>
                Len(ret) <= Cardinality({k \in 1..Len(arg.cases) : OkCase(arg.cases[k])})
    /\ (pc = "returned" /\ arg.fn = "pdf" /\ exc = None /\ HasHeader) =>
          /\ ret.success = TRUE
          /\ \A k \in 1..Len(ret.transactions) : HasBoth(ret.transactions[k])
          /\ Len(ret.transactions) = Len(RecordCases(SliceCases))

====
